---- MODULE Spec2Model ----
(***************************************************************************)
(* Model of the mkdocs tags plugin (src/tags/plugin.py): the front-matter  *)
(* extractor get_metadata / extract_yaml, the aggregator                   *)
(* TagsPlugin.generate_tags_file, the tag ordering of generate_tags_page   *)
(* and the orchestration of TagsPlugin.on_files.                           *)
(*                                                                         *)
(* Python values are tagged records: None is [t |-> "none"], a dict is     *)
(* [t |-> "dict", id |-> n, d |-> f] with f a function on the keys present *)
(* and n the identity of the object (its position in self.metadata, 0      *)
(* before it is stored there): self.metadata, sorted_meta and the lists of *)
(* tag_dict refer to the same dict objects.  A YAML null is [t |-> "null"],*)
(* a str [t |-> "str", s |-> ..], an int [t |-> "int", n |-> ..], a list   *)
(* [t |-> "list", l |-> <<..>>].                                           *)
(* A tag is a string given as the sequence of its code points, so that     *)
(* str.lower and the ordering of strings are computed.  A line of a file   *)
(* is [lead, body]: `lead` blanks, then `body` (which neither starts nor   *)
(* ends with white space), then the newline.                               *)
(***************************************************************************)
EXTENDS Integers, Sequences, FiniteSets, TLC

\* Largest number of files in the documentation directory.
MaxFiles == 3
\* Largest number of builds (calls of on_files) on one plugin instance.
MaxRuns == 2

VARIABLES
    docs,          \* the files of the documentation directory, in host order
    tags_names,    \* self.tags_names
    metadata,      \* self.metadata
    files,         \* the host's file collection of the current build
    written,       \* the files written into tags_folder: category -> context
    sorted_meta,   \* generate_tags_file's local of its last call
    tag_dict,      \* generate_tags_file's local of its last call, as the
                   \* sequence of its (tag, records) items in insertion order
    pc,            \* "new", "ready", "scan", "gen", "done", "failed"
    i,             \* position of on_files' first loop in `files`
    k,             \* position of on_files' second loop in tags_names
    run            \* number of builds started

vars == <<docs, tags_names, metadata, files, written, sorted_meta, tag_dict,
          pc, i, k, run>>

-----------------------------------------------------------------------------
\* Python values

None == [t |-> "none"]
Null == [t |-> "null"]
Str(s) == [t |-> "str", s |-> s]
Num(n) == [t |-> "int", n |-> n]
List(l) == [t |-> "list", l |-> l]
Dict(d) == [t |-> "dict", id |-> 0, d |-> d]
Raised == [t |-> "raise"]

\* Truth value of `e` in `if e` / `if not e`: None and the empty dict are false.
Truthy(e) == e.t = "dict" /\ DOMAIN e.d # {}

\* dict.update(k = v) / d[k] = v
Put(d, key, v) == [x \in DOMAIN d \cup {key} |-> IF x = key THEN v ELSE d[x]]

\* Tags, as code points
tx == <<120>>
ty == <<121>>
tz == <<122>>
ta == <<97>>
tB == <<66>>
tGo == <<71, 111>>
tgo == <<103, 111>>

\* A path of the file set: src_path is stem followed by ext.
Path(stem, ext) == [stem |-> stem, ext |-> ext]
EndsWithMd(p) == p.ext = ".md"

Line(lead, body) == [lead |-> lead, body |-> body]
\* str.strip() of a line: leading blanks and the trailing newline removed.
Strip(line) == line.body

\* What the YAML parser makes of one line of a block.
YamlLine(body) ==
    CASE body = "" -> [kind |-> "blank"]
      [] body = "# draft" -> [kind |-> "blank"]
      [] body = "title: Alpha" -> [kind |-> "pair", key |-> "title", v |-> Str("Alpha")]
      [] body = "title: Gamma" -> [kind |-> "pair", key |-> "title", v |-> Str("Gamma")]
      [] body = "filename: other.md" ->
             [kind |-> "pair", key |-> "filename", v |-> Str(Path("other", ".md"))]
      [] body = "year: 2020" -> [kind |-> "pair", key |-> "year", v |-> Num(2020)]
      [] body = "year: 2021" -> [kind |-> "pair", key |-> "year", v |-> Num(2021)]
      [] body = "year: 6000" -> [kind |-> "pair", key |-> "year", v |-> Num(6000)]
      [] body = "topics:" -> [kind |-> "pair", key |-> "topics", v |-> Null]
      [] body = "tags: [x]" -> [kind |-> "pair", key |-> "tags", v |-> List(<<tx>>)]
      [] body = "tags: [x, y]" -> [kind |-> "pair", key |-> "tags", v |-> List(<<tx, ty>>)]
      [] body = "tags: [z]" -> [kind |-> "pair", key |-> "tags", v |-> List(<<tz>>)]
      [] body = "tags: [z, x, z]" ->
             [kind |-> "pair", key |-> "tags", v |-> List(<<tz, tx, tz>>)]
      [] body = "topics: [Go]" -> [kind |-> "pair", key |-> "topics", v |-> List(<<tGo>>)]
      [] body = "topics: [go, a]" ->
             [kind |-> "pair", key |-> "topics", v |-> List(<<tgo, ta>>)]
      [] body = "topics: [B, x]" ->
             [kind |-> "pair", key |-> "topics", v |-> List(<<tB, tx>>)]
      [] OTHER -> [kind |-> "scalar"]

-----------------------------------------------------------------------------
\* The documentation directory: what open() reads for each path.

Delim == Line(0, "---")
Corpus ==
    [A |-> <<Delim, Line(0, "title: Alpha"), Line(0, "tags: [x, y]"),
             Line(0, "year: 2020"), Delim, Line(0, "Some text")>>,
     B |-> <<Delim, Line(0, "tags: [x]"), Delim, Line(0, "Some text")>>,
     C |-> <<Delim, Line(0, "title: Gamma"), Line(0, "topics: [Go]"), Delim>>,
     D |-> <<Delim, Line(0, "year: 2021"), Line(0, "tags: [z]"), Line(0, "topics:"),
             Line(0, "# draft"), Delim>>,
     E |-> <<Line(1, "---"), Line(0, "year: 2021"), Line(0, "tags: [z, x, z]"),
             Line(0, "topics: [go, a]"), Delim>>,
     F |-> <<Delim, Line(0, "year: 6000"), Line(0, "filename: other.md"),
             Line(0, "tags: [x]"), Line(0, "topics: [B, x]"), Delim>>,
     H |-> <<Line(0, "Some text"), Line(0, "")>>,
     I |-> <<Line(0, "Some text"), Delim, Line(0, "tags: [x]")>>,
     J |-> <<Delim, Line(0, ""), Line(0, "# draft"), Delim, Line(0, "Some text")>>,
     logo |-> <<Line(0, "PNG")>>]

Paths == {Path(s, ".md") : s \in DOMAIN Corpus \ {"logo"}} \cup {Path("logo", ".png")}
Content(p) == Corpus[p.stem]

\* The file sets of a documentation directory: paths are distinct.
FileSets ==
    UNION {{fs \in [1..n -> Paths] : \A a, b \in 1..n : a # b => fs[a] # fs[b]}
           : n \in 0..MaxFiles}

\* The values of the option tags_names.
ConfigNames == {<<>>, <<"tags">>, <<"tags", "topics">>}

-----------------------------------------------------------------------------
\* get_metadata and its helper extract_yaml

RECURSIVE extract_from(_, _, _, _)
extract_from(f, n, inheader, result) ==
    IF n > Len(f) THEN result
    ELSE IF Strip(f[n]) = "---"
         THEN IF inheader THEN result
              ELSE extract_from(f, n + 1, TRUE, result)
         ELSE extract_from(f, n + 1, inheader,
                           IF inheader THEN Append(result, f[n]) ELSE result)

\* The text "".join(result), kept as the sequence of its lines; it is the
\* empty string exactly when no line was collected.
extract_yaml(f) == extract_from(f, 1, FALSE, <<>>)

RECURSIVE yaml_pairs(_, _, _)
yaml_pairs(text, n, d) ==
    IF n > Len(text) THEN d
    ELSE LET y == YamlLine(text[n].body)
         IN  yaml_pairs(text, n + 1, IF y.kind = "pair" THEN Put(d, y.key, y.v) ELSE d)

\* yaml.load(text, Loader=yaml.FullLoader): a mapping, None for a document
\* of blank and comment lines, a str for plain text, or an exception.
yaml_load(text) ==
    LET kinds == {YamlLine(text[n].body).kind : n \in 1..Len(text)}
    IN  IF "scalar" \in kinds
        THEN IF "pair" \in kinds THEN Raised ELSE Str("text")
        ELSE IF "pair" \in kinds THEN Dict(yaml_pairs(text, 1, <<>>)) ELSE Null

\* Mutant of get_metadata: a filename of the front matter is kept.
get_metadata_keep_filename(name) ==
    LET text == extract_yaml(Content(name))
    IN  IF Len(text) > 0
        THEN LET meta == yaml_load(text)
             IN  IF meta.t = "dict"
                 THEN IF "filename" \in DOMAIN meta.d THEN meta
                      ELSE Dict(Put(meta.d, "filename", Str(name)))
                 ELSE Raised
        ELSE None

\* The result of get_metadata(name, ...): a dict, None, or Raised when
\* yaml.load raises or meta.update is called on a value that is no dict.
get_metadata(name) ==
    LET text == extract_yaml(Content(name))
    IN  IF Len(text) > 0
        THEN LET meta == yaml_load(text)
             IN  IF meta.t = "dict" THEN Dict(Put(meta.d, "filename", Str(name)))
                 ELSE Raised
        ELSE None

-----------------------------------------------------------------------------
\* sorted(seq, key=...)

\* Mutant of StablePerm: an item goes before the earlier items of equal key.
RECURSIVE UnstablePerm(_, _, _, _)
UnstablePerm(perm, j, n, before) ==
    IF j > n THEN perm
    ELSE LET later == {p \in 1..Len(perm) : ~before[perm[p], j]}
             q == IF later = {} THEN Len(perm) + 1
                  ELSE CHOOSE p \in later : \A r \in later : p <= r
         IN  UnstablePerm(SubSeq(perm, 1, q - 1) \o <<j>> \o SubSeq(perm, q, Len(perm)),
                          j + 1, n, before)

\* sorted(seq, key=...): Python's sort is stable, so an item goes behind the
\* items with a smaller key and behind the earlier items with an equal key.
\* StablePerm inserts the positions j..n one by one into perm, the sorted
\* positions before j; before[a, b] says that key a is less than key b.
RECURSIVE StablePerm(_, _, _, _)
StablePerm(perm, j, n, before) ==
    IF j > n THEN perm
    ELSE LET later == {p \in 1..Len(perm) : before[j, perm[p]]}
             q == IF later = {} THEN Len(perm) + 1
                  ELSE CHOOSE p \in later : \A r \in later : p <= r
         IN  StablePerm(SubSeq(perm, 1, q - 1) \o <<j>> \o SubSeq(perm, q, Len(perm)),
                        j + 1, n, before)

RECURSIVE Permuted(_, _, _)
Permuted(seq, perm, p) ==
    IF p > Len(perm) THEN <<>> ELSE <<seq[perm[p]]>> \o Permuted(seq, perm, p + 1)

\* sorted(seq, ...) given the order of the keys of its items.
sorted(seq, before) == Permuted(seq, StablePerm(<<>>, 1, Len(seq), before), 1)

IntLess(a, b) == a < b

\* str.lower() of a tag
lower(tag) ==
    [j \in 1..Len(tag) |-> IF tag[j] >= 65 /\ tag[j] <= 90 THEN tag[j] + 32 ELSE tag[j]]

\* a < b for two str: the order of the first differing code point, a proper
\* prefix coming first.
StrLess(a, b) ==
    \E j \in 1..(Len(a) + 1) :
        /\ \A m \in 1..(j - 1) : m <= Len(b) /\ a[m] = b[m]
        /\ j <= Len(b)
        /\ (j > Len(a) \/ a[j] < b[j])

\* The default of e.get("year", 5000)
MissingYear == 5000

\* Mutant of YearKey: a record without year gets the key 0.
YearKeyMissingFirst(e) ==
    IF Truthy(e)
    THEN IF "year" \in DOMAIN e.d THEN e.d["year"].n ELSE 0
    ELSE 0

\* The sort key of generate_tags_file: e.get("year", 5000) if e else 0
YearKey(e) ==
    IF Truthy(e)
    THEN IF "year" \in DOMAIN e.d THEN e.d["year"].n ELSE MissingYear
    ELSE 0

\* sorted(self.metadata, key=lambda e: e.get("year", 5000) if e else 0)
sorted_by_year(seq) ==
    sorted(seq, [a \in 1..Len(seq), b \in 1..Len(seq) |->
                    IntLess(YearKey(seq[a]), YearKey(seq[b]))])

\* if "title" not in e: e["title"] = "Untitled"   (e is truthy)
DefaultTitle(e) ==
    IF "title" \in DOMAIN e.d THEN e ELSE [e EXCEPT !.d = Put(@, "title", Str("Untitled"))]

\* The records as the loop of generate_tags_file leaves them: the dicts are
\* shared by self.metadata, sorted_meta and the lists of tag_dict.
Titled(seq) == [j \in 1..Len(seq) |-> IF Truthy(seq[j]) THEN DefaultTitle(seq[j]) ELSE seq[j]]

\* Mutant of TagsOf: the key "tags" is read whatever the category.
TagsOfTagsKey(e, tagname) == IF "tags" \in DOMAIN e.d THEN e.d["tags"] ELSE List(<<>>)

\* tags = e.get(tagname, [])
TagsOf(e, tagname) == IF tagname \in DOMAIN e.d THEN e.d[tagname] ELSE List(<<>>)

\* tag_dict[tag].append(e) on a defaultdict(list)
AppendTo(td, tag, e) ==
    IF \E j \in 1..Len(td) : td[j].tag = tag
    THEN [j \in 1..Len(td) |->
             IF td[j].tag = tag THEN [td[j] EXCEPT !.recs = Append(@, e)] ELSE td[j]]
    ELSE Append(td, [tag |-> tag, recs |-> <<e>>])

\* for tag in tags: tag_dict[tag].append(e)
RECURSIVE AddTags(_, _, _, _)
AddTags(td, tags, m, e) ==
    IF m > Len(tags) THEN td
    ELSE AddTags(AppendTo(td, tags[m], e), tags, m + 1, e)

\* The loop of generate_tags_file over sorted_meta, from position n on.
RECURSIVE Group(_, _, _, _)
Group(sm, n, tagname, td) ==
    IF n > Len(sm) THEN td
    ELSE IF ~Truthy(sm[n]) THEN Group(sm, n + 1, tagname, td)
    ELSE LET e == DefaultTitle(sm[n])
             tags == TagsOf(e, tagname)
         IN  Group(sm, n + 1, tagname,
                   IF tags.t # "null" THEN AddTags(td, tags.l, 1, e) ELSE td)

\* Mutant of TagKey: the tag is compared as written.
TagKeyCaseSensitive(item) == item.tag

\* The key of generate_tags_page's sort: t[0].lower()
TagKey(item) == lower(item.tag)

\* sorted(data.items(), key=lambda t: t[0].lower())
sorted_by_tag(items) ==
    sorted(items, [a \in 1..Len(items), b \in 1..Len(items) |->
                      StrLess(TagKey(items[a]), TagKey(items[b]))])

\* tagname.capitalize() for the configured names
Capitalize(tagname) ==
    CASE tagname = "tags" -> "Tags"
      [] tagname = "topics" -> "Topics"

\* The context generate_tags_page hands to the template.
generate_tags_page(data, tagname) ==
    [tags |-> sorted_by_tag(data),
     tagname |-> tagname,
     title |-> Capitalize(tagname)]

-----------------------------------------------------------------------------
\* The plugin

Init ==
    /\ docs \in FileSets
    /\ tags_names = <<>>
    /\ metadata = <<>>
    /\ files = <<>>
    /\ written = <<>>
    /\ sorted_meta = <<>>
    /\ tag_dict = <<>>
    /\ pc = "new"
    /\ i = 0
    /\ k = 0
    /\ run = 0

\* on_config, for the option tags_names
on_config ==
    /\ pc = "new"
    /\ \E names \in ConfigNames : tags_names' = names
    /\ pc' = "ready"
    /\ UNCHANGED <<docs, metadata, files, written, sorted_meta, tag_dict,
                   i, k, run>>

\* Where on_files goes on after its first loop.
AfterScan == IF Len(tags_names) = 0 THEN "done" ELSE "gen"

\* The host calls on_files with the file set of the documentation directory.
on_files ==
    /\ pc \in {"ready", "done"}
    /\ run < MaxRuns
    /\ run' = run + 1
    /\ files' = docs
    /\ i' = 1
    /\ k' = 1
    /\ pc' = IF Len(docs) = 0 THEN AfterScan ELSE "scan"
    /\ UNCHANGED <<docs, tags_names, metadata, written, sorted_meta, tag_dict>>

\* self.metadata.append(m): the object m is the n-th of the list.
Stored(m, n) == IF m.t = "dict" THEN [m EXCEPT !.id = n] ELSE m

\* One iteration of `for f in files`.
scan_file ==
    /\ pc = "scan"
    /\ LET f == files[i]
           m == get_metadata(f)
       IN  IF EndsWithMd(f) /\ m = Raised
           THEN /\ pc' = "failed"
                /\ UNCHANGED <<metadata, i>>
           ELSE /\ metadata' = IF EndsWithMd(f)
                               THEN Append(metadata, Stored(m, Len(metadata) + 1))
                               ELSE metadata
                /\ i' = i + 1
                /\ pc' = IF i = Len(files) THEN AfterScan ELSE "scan"
    /\ UNCHANGED <<docs, tags_names, files, written, sorted_meta, tag_dict,
                   k, run>>

\* Mutant of register: the new file is not added to the file collection.
register_nothing(fs, tagname) == fs

\* files.append(newfile), newfile the File of path "<tagname>.md"
register(fs, tagname) == Append(fs, Path(tagname, ".md"))

\* One iteration of `for tagname in self.tags_names`: generate_tags_file and
\* the registration of the new file.
generate_tags_file ==
    /\ pc = "gen"
    /\ LET tagname == tags_names[k]
           sm == sorted_by_year(metadata)
           td == Group(sm, 1, tagname, <<>>)
       IN  /\ sorted_meta' = Titled(sm)
           /\ metadata' = Titled(metadata)
           /\ tag_dict' = td
           /\ written' = Put(written, tagname, generate_tags_page(td, tagname))
           /\ files' = register(files, tagname)
    /\ k' = k + 1
    /\ pc' = IF k = Len(tags_names) THEN "done" ELSE "gen"
    /\ UNCHANGED <<docs, tags_names, i, run>>

Next == on_config \/ on_files \/ scan_file \/ generate_tags_file

Spec == Init /\ [][Next]_vars

-----------------------------------------------------------------------------
\* Vocabulary of the properties

\* The markdown files of the file set, in file-set order.
MdDocs == SelectSeq(docs, EndsWithMd)

\* The document a stored record was read from: every completed scan stores
\* one entry per markdown file, in file-set order.
Origin(e) == MdDocs[((e.id - 1) % Len(MdDocs)) + 1]

\* generate_tags_file has run in the current build; LastCat names its category.
Generated == pc \in {"gen", "done"} /\ k > 1
LastCat == tags_names[k - 1]

Range(seq) == {seq[j] : j \in 1..Len(seq)}
HasYear(e) == "year" \in DOMAIN e.d
Year(e) == e.d["year"].n
Stems(recs) == [r \in 1..Len(recs) |-> recs[r].d["filename"].s.stem]

\* Number of lines of a text that trim to "---".
DelimCount(f) == Cardinality({n \in 1..Len(f) : Strip(f[n]) = "---"})

\* The records of every grouping built so far: the last tag_dict and the
\* contexts handed to the template.
GroupedRecords ==
    UNION {Range(tag_dict[q].recs) : q \in 1..Len(tag_dict)}
    \cup UNION {UNION {Range(written[c].tags[q].recs) : q \in 1..Len(written[c].tags)}
                : c \in DOMAIN written}

\* C1: a document without a line that trims to "---", or with exactly one,
\* yields "no metadata" and is in no tag's list: every stored record and
\* every grouped record comes from a document with two such lines or more.
C1_NoBlockNoMetadata ==
    /\ \A j \in 1..Len(metadata) :
           Truthy(metadata[j]) => DelimCount(Content(Origin(metadata[j]))) >= 2
    /\ \A e \in GroupedRecords : DelimCount(Content(Origin(e))) >= 2

\* The block of a text parses to an empty or null value.
NullBlock(f) ==
    LET text == extract_yaml(f)
    IN  Len(text) = 0 \/ yaml_load(text) = Null

\* C2: a document whose metadata block parses to an empty or null value
\* yields "no metadata" without an error: the scan never fails on such a
\* document, and the entry stored for it is None.
C2_NullBlockNoError ==
    /\ pc = "failed" => ~NullBlock(Content(files[i]))
    /\ \A j \in 1..Len(metadata) :
           (metadata[j] = None) <=> NullBlock(Content(MdDocs[((j - 1) % Len(MdDocs)) + 1]))

\* e is in the list of tag t of the last grouping.
Listed(t, e) ==
    \E q \in 1..Len(tag_dict) : tag_dict[q].tag = t /\ e \in Range(tag_dict[q].recs)

AllTags == {tx, ty, tz, ta, tB, tGo, tgo}

\* C3: the grouping of category c lists a document under t exactly when the
\* document has a record and t is an element of the record's value under c;
\* nothing else is listed.
C3_GroupingIffTagged ==
    Generated =>
        /\ \A j \in 1..Len(metadata) : \A t \in AllTags :
               Listed(t, metadata[j]) <=>
                   /\ Truthy(metadata[j])
                   /\ LastCat \in DOMAIN metadata[j].d
                   /\ metadata[j].d[LastCat].t = "list"
                   /\ t \in Range(metadata[j].d[LastCat].l)
        /\ \A q \in 1..Len(tag_dict) :
               /\ tag_dict[q].tag \in AllTags
               /\ Range(tag_dict[q].recs) \subseteq Range(metadata)
               /\ \A q2 \in 1..Len(tag_dict) : q2 # q => tag_dict[q2].tag # tag_dict[q].tag

\* C3 witness: A (tags [x, y], 2020), B (tags [x], no year), C (no tags key,
\* topics [Go]) give {x: [A, B], y: [A]} for "tags", and C is listed in "topics".
C3_Witness ==
    /\ pc = "done" /\ run = 1
    /\ docs = <<Path("A", ".md"), Path("B", ".md"), Path("C", ".md")>>
    /\ tags_names = <<"tags", "topics">>
    /\ Len(written["tags"].tags) = 2
    /\ written["tags"].tags[1].tag = tx /\ Stems(written["tags"].tags[1].recs) = <<"A", "B">>
    /\ written["tags"].tags[2].tag = ty /\ Stems(written["tags"].tags[2].recs) = <<"A">>
    /\ Len(tag_dict) = 1 /\ tag_dict[1].tag = tGo /\ Stems(tag_dict[1].recs) = <<"C">>

\* C4: in every tag's list the records are in the order of a stable sort of
\* the scan-order list by year: smaller year first, equal years in scan
\* order, a record without year behind every record whose year is below 5000.
C4_ListsInStableYearOrder ==
    Generated =>
        \A q \in 1..Len(tag_dict) :
            LET recs == tag_dict[q].recs
            IN  \A a, b \in 1..Len(recs) :
                    a < b =>
                        /\ HasYear(recs[a]) /\ HasYear(recs[b]) =>
                               /\ Year(recs[a]) <= Year(recs[b])
                               /\ Year(recs[a]) = Year(recs[b]) => recs[a].id <= recs[b].id
                        /\ ~HasYear(recs[a]) /\ HasYear(recs[b]) => Year(recs[b]) >= 5000
                        /\ ~HasYear(recs[a]) /\ ~HasYear(recs[b]) => recs[a].id <= recs[b].id

\* C4 witness: B (no year), E and D (both 2021, E scanned first) and tag x
\* or z: the list of x is E, B and the list of z is E, E, D.
C4_Witness ==
    /\ Generated /\ LastCat = "tags"
    /\ docs = <<Path("B", ".md"), Path("E", ".md"), Path("D", ".md")>>
    /\ \E q \in 1..Len(tag_dict) :
           tag_dict[q].tag = tz /\ Stems(tag_dict[q].recs) = <<"E", "E", "D">>
    /\ \E q \in 1..Len(tag_dict) :
           tag_dict[q].tag = tx /\ Stems(tag_dict[q].recs) = <<"E", "B">>

\* C5, as stated: in the global sort a record without year is behind every
\* record that has a year, whatever the year.
C5_MissingYearLast ==
    \A a, b \in 1..Len(sorted_meta) :
        a < b /\ Truthy(sorted_meta[a]) /\ Truthy(sorted_meta[b]) =>
            ~(~HasYear(sorted_meta[a]) /\ HasYear(sorted_meta[b]))

\* C5, amended: in the global sort a record without year is behind every
\* record whose year is below 5000, and before every record whose year is
\* above 5000.
C5_MissingYearAt5000 ==
    \A a, b \in 1..Len(sorted_meta) :
        a < b /\ Truthy(sorted_meta[a]) /\ Truthy(sorted_meta[b]) =>
            /\ ~HasYear(sorted_meta[a]) /\ HasYear(sorted_meta[b]) =>
                   Year(sorted_meta[b]) >= 5000
            /\ HasYear(sorted_meta[a]) /\ ~HasYear(sorted_meta[b]) =>
                   Year(sorted_meta[a]) <= 5000

\* C5 witness: F (6000), B (no year), A (2020) scanned in this order are
\* sorted A, B, F.
C5_Witness ==
    /\ Generated
    /\ docs = <<Path("F", ".md"), Path("B", ".md"), Path("A", ".md")>>
    /\ Stems(sorted_meta) = <<"A", "B", "F">>

\* The place where tag t is first met by the loops of generate_tags_file:
\* position in sorted_meta, then position in the record's tag sequence.
Encounters(t) ==
    {<<p, m>> \in (1..Len(sorted_meta)) \X (1..3) :
        /\ Truthy(sorted_meta[p])
        /\ LastCat \in DOMAIN sorted_meta[p].d
        /\ sorted_meta[p].d[LastCat].t = "list"
        /\ m <= Len(sorted_meta[p].d[LastCat].l)
        /\ sorted_meta[p].d[LastCat].l[m] = t}
Earlier(x, y) == x[1] < y[1] \/ (x[1] = y[1] /\ x[2] < y[2])
FirstMet(t, u) == \E x \in Encounters(t) : \A y \in Encounters(u) : Earlier(x, y)

\* C6: the pairs handed to the template are the items of the grouping,
\* ordered by lower-cased tag; tags equal up to case are in the order in
\* which the scan of the sorted records first met them.
C6_PairsByLowerCasedTag ==
    Generated =>
        LET out == written[LastCat].tags
        IN  /\ Len(out) = Len(tag_dict)
            /\ Range(out) = Range(tag_dict)
            /\ \A a, b \in 1..Len(out) :
                   a < b =>
                       /\ ~StrLess(lower(out[b].tag), lower(out[a].tag))
                       /\ lower(out[a].tag) = lower(out[b].tag) =>
                              FirstMet(out[a].tag, out[b].tag)

\* C6 witness: C (topics [Go], no year) and E (topics [go, a], 2021): go is
\* met first, and the pairs are a, go, Go.
C6_Witness ==
    /\ Generated /\ LastCat = "topics"
    /\ Len(written["topics"].tags) = 3
    /\ written["topics"].tags[1].tag = ta
    /\ written["topics"].tags[2].tag = tgo
    /\ written["topics"].tags[3].tag = tGo

\* The front matter of a document, as parsed.
FrontMatter(p) == yaml_load(extract_yaml(Content(p))).d

\* C7: every record of a grouping has `filename`, the path of its document,
\* and `title`, the document's own or "Untitled".
C7_FilenameAndTitle ==
    \A e \in GroupedRecords :
        /\ "filename" \in DOMAIN e.d
        /\ e.d["filename"] = Str(Origin(e))
        /\ "title" \in DOMAIN e.d
        /\ e.d["title"] = IF "title" \in DOMAIN FrontMatter(Origin(e))
                          THEN FrontMatter(Origin(e))["title"]
                          ELSE Str("Untitled")

\* C7 witness: F, whose front matter sets filename and no title, and A, which
\* has a title, are both listed.
C7_Witness ==
    /\ \E e \in GroupedRecords :
           /\ Origin(e) = Path("F", ".md")
           /\ "filename" \in DOMAIN FrontMatter(Origin(e))
           /\ e.d["title"] = Str("Untitled")
    /\ \E e \in GroupedRecords :
           Origin(e) = Path("A", ".md") /\ e.d["title"] = Str("Alpha")

\* The files "<category>.md" of the first n configured categories.
CategoryFiles(n) == [j \in 1..n |-> Path(tags_names[j], ".md")]
\* Number of markdown files among the first n files of the file set.
MdCount(n) == Cardinality({j \in 1..n : EndsWithMd(docs[j])})

\* C8: a build scans every file before it generates; each entry of the
\* file set that is a markdown file adds one entry to the metadata list and
\* the others none; then each configured category, in order, is written and
\* adds one file entry; with no category nothing is written or added.
C8_ScanThenOneFilePerCategory ==
    /\ pc = "scan" =>
           /\ files = docs
           /\ Len(metadata) = (run - 1) * MdCount(Len(docs)) + MdCount(i - 1)
    /\ pc \in {"gen", "done"} =>
           /\ i = Len(docs) + 1
           /\ Len(metadata) = run * MdCount(Len(docs))
           /\ files = docs \o CategoryFiles(k - 1)
           /\ \A j \in 1..(k - 1) :
                  /\ tags_names[j] \in DOMAIN written
                  /\ written[tags_names[j]].tagname = tags_names[j]
    /\ pc = "done" => files = docs \o CategoryFiles(Len(tags_names))
    /\ run <= 1 /\ pc \in {"scan", "failed"} => DOMAIN written = {}
    /\ tags_names = <<>> => DOMAIN written = {} /\ (pc # "new" /\ run > 0 => files = docs)

\* C8 witness: a build over a markdown file and another file, for two
\* categories of which the second is carried by no document, has ended.
C8_Witness ==
    /\ pc = "done" /\ run = 1
    /\ docs = <<Path("logo", ".png"), Path("B", ".md")>>
    /\ tags_names = <<"tags", "topics">>
    /\ Len(metadata) = 1
    /\ files = <<Path("logo", ".png"), Path("B", ".md"), Path("tags", ".md"),
                 Path("topics", ".md")>>
    /\ written["topics"].tags = <<>>

\* C9: in a grouping no document is twice in the list of one tag.
C9_NoDocumentTwiceInAList ==
    Generated =>
        \A q \in 1..Len(tag_dict) :
            \A a, b \in 1..Len(tag_dict[q].recs) :
                a # b => tag_dict[q].recs[a].d["filename"] # tag_dict[q].recs[b].d["filename"]

\* The grouping as tags and documents.
Shape(td) == [q \in 1..Len(td) |-> <<td[q].tag, Stems(td[q].recs)>>]
\* self.metadata of a new plugin after one scan of the file set.
RECURSIVE FreshScan(_)
FreshScan(n) ==
    IF n = 0 THEN <<>> ELSE Append(FreshScan(n - 1), Stored(get_metadata(MdDocs[n]), n))

\* C10: the grouping of a build depends on the file set alone: the metadata
\* list has one entry per markdown file and the grouping is the one a new
\* plugin makes of the file set.
C10_GroupingOfFileSetAlone ==
    Generated =>
        /\ Len(metadata) = Len(MdDocs)
        /\ Shape(tag_dict) =
               Shape(Group(sorted_by_year(FreshScan(Len(MdDocs))), 1, LastCat, <<>>))

====
